---------------------------- MODULE Spec2Model ----------------------------
(***************************************************************************)
(* AI Trip Planner (ai-trip-planner/app/api/imagen/route.ts).              *)
(*                                                                         *)
(* The React component TripPlannerApp validates one free-text request,     *)
(* starts three provider pipelines (callAnthropicAPI, callOpenAIAPI,       *)
(* callGeminiAPI) on one event loop, joins them with Promise.all and       *)
(* publishes the three results.  Every action below is one run-to-         *)
(* completion block of the JavaScript: an event handler, or the            *)
(* continuation of an async function after one awaited network call.       *)
(***************************************************************************)
EXTENDS Naturals, Sequences, FiniteSets, TLC

(***************************************************************************)
(* Bounds of the model.                                                    *)
(***************************************************************************)
\* largest number of attractions a provider reply delivers
MaxSpots == 4
\* last reading of the clock performance.now()
MaxTime == 2
\* number of valid submissions explored
MaxSubmits == 2

(***************************************************************************)
(* Program constants.                                                      *)
(***************************************************************************)
\* route.ts:85  text.length > 10
MinLength == 10
\* route.ts:212 and :297  Math.min(3, popularSpots.length); :224 and :309  i = 3
MaxGenerated == 3

Providers == {"anthropic", "openai", "gemini"}

\* JavaScript undefined / a present value, for optional fields
None == <<>>
Some(v) == <<v>>
Get(o) == o[1]

(***************************************************************************)
(* Request texts: sequences of characters.                                 *)
(***************************************************************************)
TextParis ==
    <<"P", "a", "r", "i", "s">>
TextKyoto ==
    <<"P", "l", "a", "n", "n", "i", "n", "g", " ", "a", " ", "t", "r", "i",
      "p", " ", "t", "o", " ", "K", "y", "o", "t", "o", " ", "w", "i", "t",
      "h", " ", "m", "y", " ", "f", "a", "m", "i", "l", "y", " ", "o", "f",
      " ", "4", ",", " ", "2", " ", "a", "d", "u", "l", "t", "s", " ", "a",
      "n", "d", " ", "2", " ", "k", "i", "d", "s", " ", "a", "g", "e", "s",
      " ", "8", " ", "a", "n", "d", " ", "1", "1">>
TextTokyo ==
    <<"T", "o", "k", "y", "o", ",", " ", "2", " ", "p", "e", "o", "p", "l", "e">>
TextRome ==
    <<"A", " ", "w", "e", "e", "k", " ", "i", "n", " ", "R", "o", "m", "e">>
TextOslo ==
    <<"O", "s", "l", "o", " ", "a", "l", "o", "n", "e", ",", " ", "a", "g",
      "e", " ", "3", "0">>
TextUpper ==
    <<"S", "O", "L", "O", " ", "S", "E", "N", "I", "O", "R", " ", "I", "N",
      " ", "R", "O", "M", "E">>
TextLen10 ==
    <<"f", "a", "m", "i", "l", "y", " ", "k", "i", "d">>
TextLen11 ==
    <<"f", "a", "m", "i", "l", "y", ",", " ", "k", "i", "d">>
TextKids ==
    <<"K", "i", "d", "s", " ", "i", "n", " ", "L", "i", "s", "b", "o", "n",
      " ", "t", "o", "w", "n">>
TextSpaced ==
    <<"T", "r", "i", "p", " ", "f", "o", "r", " ", "1", "2", " ", "\t", " ",
      "a", "d", "u", "l", "t">>
TextDigits ==
    <<"R", "o", "o", "m", " ", "1", "2", ",", " ", "t", "w", "o", " ", "p",
      "e", "o", "p", "l", "e">>
TextBlank ==
    <<" ", " ", " ", " ", " ", " ", " ", " ", " ", " ", " ">>

AllTexts ==
    { <<>>, TextParis, TextKyoto, TextTokyo, TextRome, TextOslo, TextUpper,
      TextLen10, TextLen11, TextKids, TextSpaced, TextDigits, TextBlank }

(***************************************************************************)
(* Regular expressions of validateInput, matched on character sequences.   *)
(***************************************************************************)
UpperCase ==
    <<"A", "B", "C", "D", "E", "F", "G", "H", "I", "J", "K", "L", "M",
      "N", "O", "P", "Q", "R", "S", "T", "U", "V", "W", "X", "Y", "Z">>
LowerCase ==
    <<"a", "b", "c", "d", "e", "f", "g", "h", "i", "j", "k", "l", "m",
      "n", "o", "p", "q", "r", "s", "t", "u", "v", "w", "x", "y", "z">>

\* the flag /i: letters compare by their lower case
ToLower(c) ==
    IF \E k \in 1..26 : UpperCase[k] = c
    THEN LowerCase[CHOOSE k \in 1..26 : UpperCase[k] = c]
    ELSE c

\* \d and \s
IsDigit(c) == c \in {"0", "1", "2", "3", "4", "5", "6", "7", "8", "9"}
IsSpace(c) == c \in {" ", "\t", "\n", "\r"}

\* the literal word matches text at position p
MatchAt(text, p, word) ==
    /\ p >= 1
    /\ p + Len(word) - 1 <= Len(text)
    /\ \A k \in 1..Len(word) : ToLower(text[p + k - 1]) = word[k]

MatchAnyAt(text, p, words) == \E w \in words : MatchAt(text, p, w)

\* an alternation (w1|w2|...) matches somewhere in text
Contains(text, words) == \E p \in 1..Len(text) : MatchAnyAt(text, p, words)

\* (people|person|traveler|adult|child)
CountWords ==
    { <<"p", "e", "o", "p", "l", "e">>, <<"p", "e", "r", "s", "o", "n">>,
      <<"t", "r", "a", "v", "e", "l", "e", "r">>, <<"a", "d", "u", "l", "t">>,
      <<"c", "h", "i", "l", "d">> }
\* (solo|alone|myself|family|couple|group)
GroupWords ==
    { <<"s", "o", "l", "o">>, <<"a", "l", "o", "n", "e">>,
      <<"m", "y", "s", "e", "l", "f">>, <<"f", "a", "m", "i", "l", "y">>,
      <<"c", "o", "u", "p", "l", "e">>, <<"g", "r", "o", "u", "p">> }
\* (age|years old|kid|child|adult|senior|teenager|toddler|infant)
AgeWords ==
    { <<"a", "g", "e">>, <<"y", "e", "a", "r", "s", " ", "o", "l", "d">>,
      <<"k", "i", "d">>, <<"c", "h", "i", "l", "d">>,
      <<"a", "d", "u", "l", "t">>, <<"s", "e", "n", "i", "o", "r">>,
      <<"t", "e", "e", "n", "a", "g", "e", "r">>,
      <<"t", "o", "d", "d", "l", "e", "r">>, <<"i", "n", "f", "a", "n", "t">> }

\* /\d+\s*(people|person|traveler|adult|child)/i : the last digit of the run
\* at q, then k white-space characters, then one of the words
MatchCount(text) ==
    \E q \in 1..Len(text) :
        /\ IsDigit(text[q])
        /\ \E k \in 0..(Len(text) - q) :
              /\ \A j \in 1..k : IsSpace(text[q + j])
              /\ MatchAnyAt(text, q + k + 1, CountWords)

\* the length signal taken as "the text is not empty"
hasDestinationNonEmpty(text) == Len(text) > 0

hasDestination(text) == Len(text) > MinLength
hasPeopleCount(text) == MatchCount(text) \/ Contains(text, GroupWords)
hasAgeInfo(text) == Contains(text, AgeWords)

MsgDestination == "Please provide more details about your destination."
MsgPeopleCount == "Please tell us how many people are traveling."
MsgAgeInfo == "Please mention the age groups of travelers."
NoMessage == ""

\* validateInput with the age check moved in front of the length check
validateInputAgeFirst(text) ==
    IF ~hasAgeInfo(text) THEN MsgAgeInfo
    ELSE IF ~hasDestination(text) THEN MsgDestination
    ELSE IF ~hasPeopleCount(text) THEN MsgPeopleCount
    ELSE NoMessage

\* validateInput: the message it sets; NoMessage when it returns true
validateInput(text) ==
    IF ~hasDestination(text) THEN MsgDestination
    ELSE IF ~hasPeopleCount(text) THEN MsgPeopleCount
    ELSE IF ~hasAgeInfo(text) THEN MsgAgeInfo
    ELSE NoMessage

\* validateInput on every text of the model, evaluated once
Validation == [text \in AllTexts |-> validateInput(text)]

\* input.trim() is the empty string
IsBlank(text) == \A k \in 1..Len(text) : IsSpace(text[k])

(***************************************************************************)
(* Trip briefs and provider replies.                                       *)
(***************************************************************************)
\* a ?? b in the place of a || b: only undefined gives way to the default
OrElseNullish(o, d) == IF o = None THEN d ELSE Get(o)

\* a || b of JavaScript on an optional string: undefined and "" are falsy
OrElse(o, d) == IF o = None \/ o = Some("") THEN d ELSE Get(o)

\* one entry of popularSpots (interface Attraction)
Attraction(i) ==
    [ name |-> "Spot" \o ToString(i),
      description |-> "About spot " \o ToString(i),
      imagePrompt |-> "photograph of spot " \o ToString(i) ]

\* {} as TripBrief
EmptyBrief ==
    [ destination |-> None, destinationInfo |-> None,
      destinationImagePrompt |-> None, popularSpots |-> None,
      kidFriendly |-> None, bestTimeToVisit |-> None ]

\* a complete TripBrief with n attractions
BriefOf(n) ==
    [ destination |-> Some("New York"),
      destinationInfo |-> Some("The city that never sleeps"),
      destinationImagePrompt |-> Some("skyline of New York at dusk"),
      popularSpots |-> Some([i \in 1..n |-> Attraction(i)]),
      kidFriendly |-> Some("yes"),
      bestTimeToVisit |-> Some("spring") ]

\* the JSON members a reply can carry between its braces, by name
BriefId(n) == "B" \o ToString(n)
CompleteIds == { BriefId(n) : n \in 0..MaxSpots }
PartialIds == { "NoSpots", "NoDestination", "NoPrompt" }
Payload(id) ==
    IF id \in CompleteIds
    THEN BriefOf(CHOOSE n \in 0..MaxSpots : BriefId(n) = id)
    ELSE IF id = "NoSpots" THEN [BriefOf(1) EXCEPT !.popularSpots = None]
    ELSE IF id = "NoDestination" THEN [BriefOf(1) EXCEPT !.destination = None]
    ELSE [BriefOf(1) EXCEPT !.destinationImagePrompt = None]

\* reply bodies: sequences of tokens; a payload name stands for the members
\* of one JSON object (its nested braces included)
BodyPlain(id) == << "{", id, "}" >>
BodyProse(id) == << "Sure! Here you go:", "{", id, "}", "Hope that helps!" >>
BodyNoJson == << "I cannot help with that." >>
BodyTwoSpans(id) == << "{", id, "}", "or in short", "{", "}" >>

MsgFetch == "Failed to fetch"
MsgSyntax == "Unexpected token in JSON"
MsgTypeError == "Cannot read properties of undefined"

\* a JSON array of two objects, and the empty array
BodyArray(id1, id2) == << "[", "{", id1, "}", ",", "{", id2, "}", "]" >>
BodyEmptyArray == << "[", "]" >>

\* what the adapter can read of a decoded array of n elements: none of the
\* members of a TripBrief
ArrayValue(n) ==
    [ destination |-> None, destinationInfo |-> None,
      destinationImagePrompt |-> None, popularSpots |-> None,
      kidFriendly |-> None, bestTimeToVisit |-> None, length |-> n ]

\* the tokens are one JSON object
IsObject(tokens) ==
    \/ tokens = << "{", "}" >>
    \/ /\ Len(tokens) = 3 /\ tokens[1] = "{" /\ tokens[3] = "}"
       /\ tokens[2] \in CompleteIds \cup PartialIds

\* the tokens are JSON objects separated by commas
RECURSIVE IsObjectList(_)
IsObjectList(tokens) ==
    \E len \in {2, 3} :
        /\ len <= Len(tokens)
        /\ IsObject(SubSeq(tokens, 1, len))
        /\ \/ len = Len(tokens)
           \/ /\ Len(tokens) > len + 1
              /\ tokens[len + 1] = ","
              /\ IsObjectList(SubSeq(tokens, len + 2, Len(tokens)))

\* the tokens are one JSON array of objects
IsArray(tokens) ==
    /\ Len(tokens) >= 2
    /\ tokens[1] = "[" /\ tokens[Len(tokens)] = "]"
    /\ \/ Len(tokens) = 2
       \/ IsObjectList(SubSeq(tokens, 2, Len(tokens) - 1))

\* JSON.parse of a token sequence: [ok, value]
JSONparse(tokens) ==
    IF Len(tokens) = 3 /\ tokens[1] = "{" /\ tokens[3] = "}"
       /\ tokens[2] \in CompleteIds \cup PartialIds
    THEN [ok |-> TRUE, value |-> Payload(tokens[2])]
    ELSE IF tokens = << "{", "}" >>
    THEN [ok |-> TRUE, value |-> EmptyBrief]
    ELSE IF IsArray(tokens)
    THEN [ ok |-> TRUE,
           value |-> ArrayValue(Cardinality({ k \in 1..Len(tokens) : tokens[k] = "{" })) ]
    ELSE [ok |-> FALSE, value |-> EmptyBrief]

\* text.match(/\{[\s\S]*?\}/): from the first "{" to the first "}" after it
BraceMatchLazy(tokens) ==
    LET opens == { k \in 1..Len(tokens) : tokens[k] = "{" }
        closes == { k \in 1..Len(tokens) : tokens[k] = "}" }
    IN  IF opens = {} THEN None
        ELSE LET first == CHOOSE k \in opens : \A j \in opens : k <= j
                 after == { k \in closes : k > first }
             IN  IF after = {} THEN None
                 ELSE LET next == CHOOSE k \in after : \A j \in after : k <= j
                      IN  Some(SubSeq(tokens, first, next))

\* text.match(/\{[\s\S]*\}/): greedy, from the first "{" to the last "}";
\* None when there is no "{" followed by a "}"
BraceMatch(tokens) ==
    LET opens == { k \in 1..Len(tokens) : tokens[k] = "{" }
        closes == { k \in 1..Len(tokens) : tokens[k] = "}" }
    IN  IF opens = {} THEN None
        ELSE LET first == CHOOSE k \in opens : \A j \in opens : k <= j
                 after == { k \in closes : k > first }
             IN  IF after = {} THEN None
                 ELSE LET last == CHOOSE k \in after : \A j \in after : j <= k
                      IN  Some(SubSeq(tokens, first, last))

\* jsonMatch ? JSON.parse(jsonMatch[0]) : JSON.parse(text)
ExtractBrief(text) ==
    LET jsonMatch == BraceMatch(text)
    IN  IF jsonMatch # None THEN JSONparse(Get(jsonMatch)) ELSE JSONparse(text)

\* data.usage of a reply: undefined, or the provider's two counts
\* (input_tokens/output_tokens, prompt_tokens/completion_tokens,
\*  promptTokenCount/candidatesTokenCount)
NoUsage == [present |-> FALSE, input |-> 0, output |-> 0]
Usage(i, o) == [present |-> TRUE, input |-> i, output |-> o]

\* what fetch and response.json() deliver for the text call
TextReply(kind, ok, error, text, usage) ==
    [kind |-> kind, ok |-> ok, error |-> error, text |-> text, usage |-> usage]
ReplyReject == TextReply("reject", FALSE, None, None, NoUsage)
ReplyNonJson(ok) == TextReply("nonjson", ok, None, None, NoUsage)
ReplyError(error) == TextReply("json", FALSE, error, None, NoUsage)
ReplyNoText == TextReply("json", TRUE, None, None, NoUsage)
ReplyText(body, usage) == TextReply("json", TRUE, None, Some(body), usage)

RichBodies ==
    { BodyPlain(id) : id \in CompleteIds \cup PartialIds }
      \cup { BodyProse(BriefId(1)), BodyNoJson, BodyTwoSpans(BriefId(1)),
             << "{", "}" >>, BodyArray(BriefId(1), BriefId(0)), BodyEmptyArray }
RichUsages == { NoUsage, Usage(12, 34), Usage(7, 5) }
RichReplies ==
    { ReplyReject, ReplyNonJson(TRUE), ReplyNonJson(FALSE), ReplyNoText,
      ReplyError(None), ReplyError(Some("")), ReplyError(Some("Rate limit exceeded")) }
      \cup { ReplyText(b, Usage(12, 34)) : b \in RichBodies }
      \cup { ReplyText(BodyPlain(BriefId(1)), u) : u \in RichUsages }
CoarseReplies ==
    { ReplyReject, ReplyError(Some("Rate limit exceeded")),
      ReplyText(BodyNoJson, NoUsage), ReplyText(BodyPlain(BriefId(1)), Usage(12, 34)) }
TinyReplies == { ReplyReject }

\* what fetch and response.json() deliver for an image call: the fetch
\* rejects, the body is no JSON, the body is {error}, the body is {url}
RichImageReplies == { "reject", "nonjson", "error", "url" }
CoarseImageReplies == { "reject", "error", "url" }

(***************************************************************************)
(* The three provider adapters.                                            *)
(***************************************************************************)
ProviderName(a) ==
    IF a = "anthropic" THEN "Anthropic" ELSE IF a = "openai" THEN "OpenAI" ELSE "Google"
ModelOnSuccess(a) ==
    IF a = "anthropic" THEN "Claude Sonnet 4 (LoremFlickr)"
    ELSE IF a = "openai" THEN "GPT-4o + DALL-E 3" ELSE "Gemini 2.5 + Stability AI"
ModelOnFailure(a) ==
    IF a = "anthropic" THEN "Claude Sonnet 4"
    ELSE IF a = "openai" THEN "GPT-4o" ELSE "Gemini 2.5"
\* data.error?.message || '...'
DefaultError(a) == IF a = "anthropic" THEN "Anthropic API error" ELSE "API error"
KeyError(a) == IF a = "openai" THEN "OpenAI key not configured" ELSE "Gemini key not configured"
TextEndpoint(a) ==
    IF a = "anthropic" THEN "/api/anthropic"
    ELSE IF a = "openai" THEN "https://api.openai.com/v1/chat/completions"
    ELSE "https://generativelanguage.googleapis.com/v1beta/models/gemini-2.5-flash:generateContent"
ImageEndpoint(a) == IF a = "openai" THEN "/api/dalle" ELSE "/api/imagen"
NotAvailable == "N/A"
\* ... || 'N/A' (Anthropic, OpenAI), ... || '~250' and ... || '~800' (Gemini)
DefaultInputTokens(a) == IF a = "gemini" THEN "~250" ELSE NotAvailable
DefaultOutputTokens(a) == IF a = "gemini" THEN "~800" ELSE NotAvailable
DestinationPlaceholder(a) ==
    IF a = "openai"
    THEN "https://via.placeholder.com/800x600?text=Image+Generation+Failed"
    ELSE "https://via.placeholder.com/800x600?text=Image+Failed"
AttractionPlaceholder == "https://via.placeholder.com/600x400?text=Failed"

\* encodeURIComponent on the names of the model; undefined becomes "undefined"
encodeURIComponent(o) ==
    IF o = None THEN "undefined"
    ELSE IF Get(o) = "New York" THEN "New%20York"
    ELSE Get(o)

\* template literal `${x}` of an optional string
Interpolate(o) == IF o = None THEN "undefined" ELSE Get(o)

\* data.usage?.count || fallback; a number is shown by its digits
TokenCount(usage, count, fallback) ==
    IF usage.present /\ count # 0 THEN ToString(count) ELSE fallback

\* the url an image proxy answers for a prompt
GeneratedUrl(prompt) == "generated:" \o Interpolate(prompt)

\* the local variables of one call of an adapter; run is the number of the
\* submission that made the call (history)
IdleTask ==
    [ pc |-> "idle", run |-> 0, startTime |-> 0, latencyMs |-> 0,
      usage |-> NoUsage, tripBrief |-> EmptyBrief,
      destinationImage |-> "", attractionImages |-> <<>> ]
DoneTask(tk) ==
    [ IdleTask EXCEPT !.pc = "done", !.run = tk.run, !.startTime = tk.startTime ]

Pending == [state |-> "pending", value |-> None]
Fulfilled(v) == [state |-> "fulfilled", value |-> Some(v)]
Rejected == [state |-> "rejected", value |-> None]

\* the object returned by the catch block; t is performance.now()
FailureResponse(a, tk, message, t) ==
    [ tripBrief |-> EmptyBrief,
      destinationImage |-> "",
      attractionImages |-> <<>>,
      metrics |-> [ latencyMs |-> t - tk.startTime,
                    inputTokens |-> NotAvailable,
                    outputTokens |-> NotAvailable,
                    provider |-> ProviderName(a),
                    model |-> ModelOnFailure(a) ],
      error |-> Some(message),
      run |-> tk.run ]

\* the object returned at the end of the try block
SuccessResponse(a, tk) ==
    [ tripBrief |-> tk.tripBrief,
      destinationImage |-> tk.destinationImage,
      attractionImages |-> tk.attractionImages,
      metrics |-> [ latencyMs |-> tk.latencyMs,
                    inputTokens |->
                        TokenCount(tk.usage, tk.usage.input, DefaultInputTokens(a)),
                    outputTokens |->
                        TokenCount(tk.usage, tk.usage.output, DefaultOutputTokens(a)),
                    provider |-> ProviderName(a),
                    model |-> ModelOnSuccess(a) ],
      error |-> None,
      run |-> tk.run ]

\* the ways one continuation of an adapter ends: an exception reaches the
\* catch block, the try block returns, or the next fetch is awaited
Rethrown(a, tk, message, t) ==
    [task |-> DoneTask(tk), promise |-> Rejected, fetch |-> None]
Thrown(a, tk, message, t) ==
    [ task |-> DoneTask(tk),
      promise |-> Fulfilled(FailureResponse(a, tk, message, t)),
      fetch |-> None ]
Returned(a, tk) ==
    [ task |-> DoneTask(tk),
      promise |-> Fulfilled(SuccessResponse(a, tk)),
      fetch |-> None ]
Awaiting(tk, pc, url, userInput, prompt) ==
    [ task |-> [tk EXCEPT !.pc = pc],
      promise |-> Pending,
      fetch |-> Some([url |-> url, userInput |-> userInput, prompt |-> prompt]) ]

\* callAnthropicAPI: the LoremFlickr images
AnthropicImages(tk, t) ==
    IF tk.tripBrief.popularSpots = None
    THEN Thrown("anthropic", tk, MsgTypeError, t)
    ELSE LET spots == Get(tk.tripBrief.popularSpots)
         IN  Returned("anthropic",
                 [ tk EXCEPT
                     !.destinationImage =
                         "https://loremflickr.com/800/600/"
                             \o encodeURIComponent(tk.tripBrief.destination),
                     !.attractionImages =
                         [ i \in 1..Len(spots) |->
                             "https://loremflickr.com/600/400/"
                                 \o encodeURIComponent(Some(spots[i].name)) ] ])

\* the image of popularSpots[i] for i >= 3 (i counts from 0 as in the code)
FallbackImage(a, spots, i) ==
    IF a = "openai"
    THEN "https://picsum.photos/seed/" \o spots[i + 1].name \o "/600/400"
    ELSE "https://picsum.photos/600/400?random=" \o ToString(i)

Min(x, y) == IF x <= y THEN x ELSE y

\* the placeholder loop run from index 0 instead of index 3
AttractionLoopFromZero(a, tk, t) ==
    IF tk.tripBrief.popularSpots = None
    THEN Thrown(a, tk, MsgTypeError, t)
    ELSE LET spots == Get(tk.tripBrief.popularSpots)
             i == Len(tk.attractionImages)
         IN  IF i < Min(MaxGenerated, Len(spots))
             THEN Awaiting(tk, "spotImg", ImageEndpoint(a), <<>>,
                           Some(spots[i + 1].imagePrompt))
             ELSE Returned(a,
                     [ tk EXCEPT !.attractionImages =
                         tk.attractionImages \o
                           [ j \in 1..Len(spots) |->
                               FallbackImage(a, spots, j - 1) ] ])

\* callOpenAIAPI, callGeminiAPI: the loop over the first three attractions,
\* entered with attractionImages.length images, then the placeholders
AttractionLoop(a, tk, t) ==
    IF tk.tripBrief.popularSpots = None
    THEN Thrown(a, tk, MsgTypeError, t)
    ELSE LET spots == Get(tk.tripBrief.popularSpots)
             i == Len(tk.attractionImages)
         IN  IF i < Min(MaxGenerated, Len(spots))
             THEN Awaiting(tk, "spotImg", ImageEndpoint(a), <<>>,
                           Some(spots[i + 1].imagePrompt))
             ELSE Returned(a,
                     [ tk EXCEPT !.attractionImages =
                         tk.attractionImages \o
                           [ j \in 1..(Len(spots) - i) |->
                               FallbackImage(a, spots, i + j - 1) ] ])

\* the adapter going to its text call whether or not its key is set
StartAdapterUnchecked(a, userInput, run, hasKey, t) ==
    Awaiting([IdleTask EXCEPT !.run = run, !.startTime = t], "text",
             TextEndpoint(a), userInput, None)

\* the adapter from its start to its first await; the request body of the
\* text call is logged by the userInput it embeds
StartAdapter(a, userInput, run, hasKey, t) ==
    LET tk == [IdleTask EXCEPT !.run = run, !.startTime = t]
    IN  IF a # "anthropic" /\ ~hasKey
        THEN Thrown(a, tk, KeyError(a), t)
        ELSE Awaiting(tk, "text", TextEndpoint(a), userInput, None)

\* the adapter issuing its text call a second time when the first fetch
\* was rejected
AfterTextRetry(a, tk, r, t) ==
    IF r.kind = "reject"
    THEN Awaiting(tk, "retry", TextEndpoint(a), <<>>, None)
    ELSE IF r.kind = "nonjson" THEN Thrown(a, tk, MsgSyntax, t)
    ELSE
      LET tk1 == [tk EXCEPT !.latencyMs = t - tk.startTime, !.usage = r.usage]
      IN  IF ~r.ok THEN Thrown(a, tk1, OrElse(r.error, DefaultError(a)), t)
          ELSE IF r.text = None THEN Thrown(a, tk1, MsgTypeError, t)
          ELSE
            LET parsed == ExtractBrief(Get(r.text))
                tk2 == [tk1 EXCEPT !.tripBrief = parsed.value]
            IN  IF ~parsed.ok THEN Thrown(a, tk1, MsgSyntax, t)
                ELSE IF a = "anthropic" THEN AnthropicImages(tk2, t)
                ELSE Awaiting(tk2, "destImg", ImageEndpoint(a), <<>>,
                              tk2.tripBrief.destinationImagePrompt)

\* the adapter from the settling of its text call to its next await
AfterText(a, tk, r, t) ==
    IF r.kind = "reject" THEN Thrown(a, tk, MsgFetch, t)
    ELSE IF r.kind = "nonjson" THEN Thrown(a, tk, MsgSyntax, t)
    ELSE
      LET tk1 == [tk EXCEPT !.latencyMs = t - tk.startTime, !.usage = r.usage]
      IN  IF ~r.ok THEN Thrown(a, tk1, OrElse(r.error, DefaultError(a)), t)
          ELSE IF r.text = None THEN Thrown(a, tk1, MsgTypeError, t)
          ELSE
            LET parsed == ExtractBrief(Get(r.text))
                tk2 == [tk1 EXCEPT !.tripBrief = parsed.value]
            IN  IF ~parsed.ok THEN Thrown(a, tk1, MsgSyntax, t)
                ELSE IF a = "anthropic" THEN AnthropicImages(tk2, t)
                ELSE Awaiting(tk2, "destImg", ImageEndpoint(a), <<>>,
                              tk2.tripBrief.destinationImagePrompt)

\* imgData.url || placeholder, for the reply to the call with this prompt
ImageOr(reply, prompt, placeholder) ==
    IF reply = "url" THEN GeneratedUrl(prompt) ELSE placeholder

\* the adapter with the fetch of its image calls outside the try block: a
\* rejected fetch rejects the adapter's promise
AfterImageUncaught(a, tk, reply, prompt, t) ==
    IF reply = "reject" THEN Rethrown(a, tk, MsgFetch, t)
    ELSE IF reply = "nonjson" THEN Thrown(a, tk, MsgSyntax, t)
    ELSE IF tk.pc = "destImg"
    THEN AttractionLoop(a,
             [ tk EXCEPT !.destinationImage =
                 ImageOr(reply, prompt, DestinationPlaceholder(a)) ], t)
    ELSE AttractionLoop(a,
             [ tk EXCEPT !.attractionImages =
                 Append(tk.attractionImages,
                        ImageOr(reply, prompt, AttractionPlaceholder)) ], t)

\* the adapter from the settling of an image call to its next await
AfterImage(a, tk, reply, prompt, t) ==
    IF reply = "reject" THEN Thrown(a, tk, MsgFetch, t)
    ELSE IF reply = "nonjson" THEN Thrown(a, tk, MsgSyntax, t)
    ELSE IF tk.pc = "destImg"
    THEN AttractionLoop(a,
             [ tk EXCEPT !.destinationImage =
                 ImageOr(reply, prompt, DestinationPlaceholder(a)) ], t)
    ELSE AttractionLoop(a,
             [ tk EXCEPT !.attractionImages =
                 Append(tk.attractionImages,
                        ImageOr(reply, prompt, AttractionPlaceholder)) ], t)

(***************************************************************************)
(* The image proxy routes: POST of app/api/dalle/route.ts and POST of      *)
(* app/api/imagen/route.ts (lines 3-37).                                   *)
(***************************************************************************)
ProxyRoutes == {"/api/dalle", "/api/imagen"}
BackendOf(route) ==
    IF route = "/api/dalle"
    THEN "https://api.openai.com/v1/images/generations"
    ELSE "https://api.stability.ai/v1/generation/stable-diffusion-xl-1024-v1-0/text-to-image"

\* what request.json() delivers: it rejects, null, an object without
\* prompt, an object with prompt
ProxyRequests == {"nonjson", "null", "noprompt", "prompt"}

\* the decoded body of the backend's answer: null, or an object with an
\* optional error (whose message is optional) and an optional list
\* (data.data, data.artifacts) of entries whose image (url, base64) is
\* optional
NullData == [null |-> TRUE, error |-> None, list |-> None]
Data(error, list) == [null |-> FALSE, error |-> error, list |-> list]
Entry(image) == [image |-> image]
ErrorData ==
    { NullData, Data(None, None), Data(Some(None), None),
      Data(Some(Some("")), None), Data(Some(Some("Billing hard limit reached")), None) }
ImageData ==
    { NullData, Data(None, None), Data(None, Some(<<>>)),
      Data(None, Some(<< Entry(None) >>)),
      Data(None, Some(<< Entry(Some("img-1")), Entry(Some("img-2")) >>)),
      Data(None, Some(<< Entry(Some("img-1")) >>)) }

\* what fetch and response.json() deliver for the backend call
BackendReply(kind, status, data) == [kind |-> kind, status |-> status, data |-> data]
OkStatuses == {200}
ErrorStatuses == {400, 401, 429, 500}
BackendReplies ==
    { BackendReply("reject", 0, NullData) }
      \cup { BackendReply("nonjson", st, NullData) : st \in {200, 500} }
      \cup { BackendReply("json", st, d) : st \in ErrorStatuses, d \in ErrorData }
      \cup { BackendReply("json", st, d) : st \in OkStatuses, d \in ImageData }

\* response.ok
Ok(status) == status \in 200..299

\* NextResponse.json(body, { status }); a member that is undefined is left
\* out of the JSON text
NextResponseJson(error, url, status) ==
    [status |-> status, body |-> [error |-> error, url |-> url]]

\* the catch block of POST
ProxyCaught(message) == NextResponseJson(Some(message), None, 500)

\* the request being handled by a route
IdleProxy ==
    [ route |-> "", pc |-> "idle", request |-> "", prompt |-> None,
      calls |-> <<>>, backend |-> None, responses |-> <<>> ]

\* POST from its start to its await of fetch: [responded, response, prompt]
ProxyStart(request) ==
    IF request = "nonjson"
    THEN [responded |-> TRUE, response |-> ProxyCaught(MsgSyntax), prompt |-> None]
    ELSE IF request = "null"
    THEN [responded |-> TRUE, response |-> ProxyCaught(MsgTypeError), prompt |-> None]
    ELSE [ responded |-> FALSE, response |-> ProxyCaught(""),
           prompt |-> IF request = "prompt" THEN Some("skyline at dusk") ELSE None ]

\* POST from the settling of its fetch to its return
ProxyAfterFetch(route, r) ==
    IF r.kind = "reject" THEN ProxyCaught(MsgFetch)
    ELSE IF r.kind = "nonjson" THEN ProxyCaught(MsgSyntax)
    ELSE IF ~Ok(r.status)
    THEN IF route = "/api/dalle"
         THEN IF r.data.null THEN ProxyCaught(MsgTypeError)
              ELSE NextResponseJson(
                       Some(OrElse(IF r.data.error = None THEN None
                                   ELSE Get(r.data.error), "DALL-E error")),
                       None, r.status)
         ELSE NextResponseJson(Some("Stability AI error"), None, r.status)
    ELSE IF r.data.null \/ r.data.list = None THEN ProxyCaught(MsgTypeError)
    ELSE IF Get(r.data.list) = <<>> THEN ProxyCaught(MsgTypeError)
    ELSE IF route = "/api/dalle"
    THEN NextResponseJson(None, Get(r.data.list)[1].image, 200)
    ELSE NextResponseJson(None,
             Some("data:image/png;base64," \o Interpolate(Get(r.data.list)[1].image)),
             200)

(***************************************************************************)
(* State.                                                                  *)
(***************************************************************************)
VARIABLES
    focus,            \* which part of the environment is explored in detail
    env,              \* process.env: is NEXT_PUBLIC_<provider>_API_KEY set
    now,              \* performance.now()
    input,            \* useState('')
    validationError,  \* useState('')
    loading,          \* useState(false)
    results,          \* useState({})
    selectedBest,     \* useState(null)
    handler,          \* where handleSubmit stands
    epoch,            \* number of valid submissions so far (history)
    task,             \* per adapter: the locals of its running call
    promise,          \* per adapter: the promise its call returned
    hist,             \* per adapter: calls issued, replies seen (history)
    proxy             \* the image proxy routes: the POST being handled

vars ==
    << focus, env, now, input, validationError, loading, results,
       selectedBest, handler, epoch, task, promise, hist, proxy >>

\* the state of the page TripPlannerApp and its adapters
pageVars ==
    << env, now, input, validationError, loading, results, selectedBest,
       handler, epoch, task, promise, hist >>

\* the scopes of exploration: every reply of one adapter's backends in
\* detail, the three adapters together, or the request texts
Scopes == Providers \cup {"app", "texts", "proxy"}

TextRepliesOf(a) ==
    IF focus = a THEN RichReplies
    ELSE IF focus = "app" THEN CoarseReplies ELSE TinyReplies
ImageRepliesOf(a) ==
    IF focus = a THEN RichImageReplies
    ELSE CoarseImageReplies
TextsTyped ==
    IF focus = "texts" THEN AllTexts
    ELSE IF focus = "app" THEN {TextParis, TextKyoto}
    ELSE IF focus = "proxy" THEN {} ELSE {TextKyoto}
\* outside its own scope and the scope of the three together an adapter
\* ends at once: its key is not set (Anthropic, which reads no key, is
\* refused the connection)
\* env.anthropic is ANTHROPIC_API_KEY, the key of the /api/anthropic route,
\* which callAnthropicAPI never reads; it is left out in the scope of
\* Adapter-A and set in the scope of the three together
KeySettings(f) ==
    { e \in [Providers -> BOOLEAN] :
        /\ \A a \in Providers : (f \notin {a, "app"}) => ~e[a]
        /\ f = "app" => e["anthropic"] }

\* the valid submissions explored: one run in the scope of an adapter's
\* replies, repeated runs in the other scopes
SubmitsExplored == IF focus \in Providers THEN 1 ELSE MaxSubmits

EmptyResults == [a \in {} |-> None]
EmptyHist == [calls |-> <<>>, seen |-> <<>>, reply |-> None, finishedAt |-> 0]

Init ==
    /\ focus \in Scopes
    /\ env \in KeySettings(focus)
    /\ now = 0
    /\ input = <<>>
    /\ validationError = NoMessage
    /\ loading = FALSE
    /\ results = EmptyResults
    /\ selectedBest = None
    /\ handler = "idle"
    /\ epoch = 0
    /\ task = [a \in Providers |-> IdleTask]
    /\ promise = [a \in Providers |-> Pending]
    /\ hist = [a \in Providers |-> EmptyHist]
    /\ proxy = IdleProxy

\* the history of an adapter after one continuation that saw `kind` and
\* ended as `out`: the fetches issued, the kinds of reply seen, the reply to
\* the text call, the time at which the adapter returned
Logged(h, kind, reply, out, t) ==
    [ calls |-> IF out.fetch = None THEN h.calls ELSE Append(h.calls, Get(out.fetch)),
      seen |-> Append(h.seen, kind),
      reply |-> reply,
      finishedAt |-> IF out.task.pc = "done" THEN t ELSE h.finishedAt ]

(***************************************************************************)
(* Actions.                                                                *)
(***************************************************************************)
\* textarea onChange
SetInput(text) ==
    /\ input' = text
    /\ validationError' = NoMessage
    /\ UNCHANGED << focus, env, now, loading, results, selectedBest, handler,
                    epoch, task, promise, hist, proxy >>

\* the Go button left enabled while a run is in flight
CanSubmitWhileLoading == ~IsBlank(input)

\* the Go button is enabled
CanSubmit == ~loading /\ ~IsBlank(input)

\* handleSubmit going on whatever validateInput returned
ProceedsAlways(message) == TRUE

\* if (!validateInput(input)) return;
Proceeds(message) == message = NoMessage

\* handleSubmit with the bundle and the selection cleared before the
\* validation instead of after it
SubmitClearsFirst ==
    /\ CanSubmit
    /\ LET message == Validation[input]
       IN  IF ~Proceeds(message)
           THEN /\ validationError' = message
                /\ results' = EmptyResults
                /\ selectedBest' = None
                /\ UNCHANGED << loading, handler, epoch, task, promise, hist >>
           ELSE /\ epoch < SubmitsExplored
                /\ validationError' = message
                /\ loading' = TRUE
                /\ results' = EmptyResults
                /\ selectedBest' = None
                /\ handler' = "awaiting"
                /\ epoch' = epoch + 1
                /\ LET out == [ a \in Providers |->
                                  StartAdapter(a, input, epoch + 1,
                                      IF a = "anthropic" THEN TRUE ELSE env[a], now) ]
                   IN  /\ task' = [a \in Providers |-> out[a].task]
                       /\ promise' = [a \in Providers |-> out[a].promise]
                       /\ hist' = [ a \in Providers |->
                                      Logged(EmptyHist, "start", None, out[a], now) ]
    /\ UNCHANGED << focus, env, now, input, proxy >>

\* handleSubmit up to its await: the validation, the three state updates and
\* the start of the three adapters
Submit ==
    /\ CanSubmit
    /\ LET message == Validation[input]
       IN  IF ~Proceeds(message)
           THEN /\ validationError' = message
                /\ UNCHANGED << loading, results, selectedBest, handler, epoch,
                                task, promise, hist >>
           ELSE /\ epoch < SubmitsExplored
                /\ validationError' = message
                /\ loading' = TRUE
                /\ results' = EmptyResults
                /\ selectedBest' = None
                /\ handler' = "awaiting"
                /\ epoch' = epoch + 1
                /\ LET out == [ a \in Providers |->
                                  StartAdapter(a, input, epoch + 1,
                                      IF a = "anthropic" THEN TRUE ELSE env[a], now) ]
                   IN  /\ task' = [a \in Providers |-> out[a].task]
                       /\ promise' = [a \in Providers |-> out[a].promise]
                       /\ hist' = [ a \in Providers |->
                                      Logged(EmptyHist, "start", None, out[a], now) ]
    /\ UNCHANGED << focus, env, now, input, proxy >>

\* a continuation that ends in the catch block also ends the adapters
\* still in flight
ContinueOrAbort(a, kind, reply, out) ==
    LET fails == out.promise.state = "fulfilled"
                   /\ Get(out.promise.value).error # None
        aborted(b) == b # a /\ fails /\ task[b].pc \notin {"idle", "done"}
    IN  /\ task' = [ b \in Providers |->
                       IF b = a THEN out.task
                       ELSE IF aborted(b) THEN DoneTask(task[b]) ELSE task[b] ]
        /\ promise' = [ b \in Providers |->
                          IF b = a THEN out.promise
                          ELSE IF aborted(b)
                          THEN Fulfilled(FailureResponse(b, task[b], "aborted", now))
                          ELSE promise[b] ]
        /\ hist' = [hist EXCEPT ![a] = Logged(hist[a], kind, reply, out, now)]
        /\ UNCHANGED << focus, env, now, input, validationError, loading,
                        results, selectedBest, handler, epoch, proxy >>

\* one continuation of adapter a ends as out
Continue(a, kind, reply, out) ==
    /\ task' = [task EXCEPT ![a] = out.task]
    /\ promise' = [promise EXCEPT ![a] = out.promise]
    /\ hist' = [hist EXCEPT ![a] = Logged(hist[a], kind, reply, out, now)]
    /\ UNCHANGED << focus, env, now, input, validationError, loading, results,
                    selectedBest, handler, epoch, proxy >>

\* what the adapter observes of a text reply
TextKind(r) == IF r.kind = "json" /\ ~r.ok THEN "http_error" ELSE r.kind

\* the text call of adapter a settles with reply r
TextSettled(a, r) ==
    /\ task[a].pc = "text"
    /\ Continue(a, TextKind(r), Some(r), AfterText(a, task[a], r, now))

\* the image call of adapter a settles
ImageSettled(a, reply) ==
    /\ task[a].pc \in {"destImg", "spotImg"}
    /\ LET call == hist[a].calls[Len(hist[a].calls)]
       IN  Continue(a, "image_" \o reply, hist[a].reply,
                    AfterImage(a, task[a], reply, call.prompt, now))

\* Promise.all over an arbitrary one of the promises only
PromiseAny(ps) ==
    IF \E a \in Providers : ps[a].state = "rejected" THEN "rejected"
    ELSE IF \E a \in Providers : ps[a].state = "fulfilled" THEN "fulfilled"
    ELSE "pending"

\* Promise.all: rejected as soon as one is, fulfilled when all are
PromiseAll(ps) ==
    IF \E a \in Providers : ps[a].state = "rejected" THEN "rejected"
    ELSE IF \A a \in Providers : ps[a].state = "fulfilled" THEN "fulfilled"
    ELSE "pending"

\* the order of the array given to Promise.all and of the cards rendered
ProviderOrder == << "anthropic", "openai", "gemini" >>

\* the results handed out in the order in which the adapters ended (ties in
\* the order of the calls) instead of the order of the array
DestructureByCompletion(ps) ==
    LET index(a) == CHOOSE k \in 1..3 : ProviderOrder[k] = a
        before(b, a) ==
            \/ hist[b].finishedAt < hist[a].finishedAt
            \/ hist[b].finishedAt = hist[a].finishedAt /\ index(b) < index(a)
        rank(a) == 1 + Cardinality({ b \in Providers : before(b, a) })
        nth(k) == CHOOSE a \in Providers : rank(a) = k
    IN  [ a \in { p \in Providers : ps[p].state = "fulfilled" }
            |-> Get(ps[nth(index(a))].value) ]

\* const [anthropicResult, openaiResult, geminiResult] = await Promise.all(..)
\* and the object given to setResults
Destructure(ps) ==
    [ a \in { p \in Providers : ps[p].state = "fulfilled" } |-> Get(ps[a].value) ]

\* handleSubmit after its await
Join ==
    /\ handler = "awaiting"
    /\ PromiseAll(promise) # "pending"
    /\ IF PromiseAll(promise) = "rejected"
       THEN /\ handler' = "rejected"
            /\ UNCHANGED << results, loading >>
       ELSE /\ handler' = "idle"
            /\ results' = Destructure(promise)
            /\ loading' = FALSE
    /\ UNCHANGED << focus, env, now, input, validationError, selectedBest,
                    epoch, task, promise, hist, proxy >>

\* the Select Best button shown on the error panel too
SelectBestAnyCard(p) ==
    /\ DOMAIN results # {}
    /\ ~loading
    /\ p \in DOMAIN results
    /\ selectedBest' = Some(p)
    /\ UNCHANGED << focus, env, now, input, validationError, loading, results,
                    handler, epoch, task, promise, hist, proxy >>

\* the Select Best button of the card of provider p
SelectBest(p) ==
    /\ DOMAIN results # {}
    /\ ~loading
    /\ p \in DOMAIN results
    /\ results[p].error \in {None, Some("")}
    /\ selectedBest' = Some(p)
    /\ UNCHANGED << focus, env, now, input, validationError, loading, results,
                    handler, epoch, task, promise, hist, proxy >>

\* ResultCard choosing its branch by the brief instead of by the error
PanelByDestination(result) ==
    IF result.tripBrief.destination = None THEN "error" ELSE "brief"

\* ResultCard: the error panel when result.error is truthy, else the brief
Panel(result) == IF result.error \in {None, Some("")} THEN "brief" ELSE "error"

\* the cards of the results grid, in the order of the JSX
ResultCards ==
    IF DOMAIN results # {} /\ ~loading
    THEN LET present(p) == p \in DOMAIN results
             shown == SelectSeq(ProviderOrder, present)
         IN  [ k \in 1..Len(shown) |->
                 [ provider |-> shown[k],
                   result |-> results[shown[k]],
                   panel |-> Panel(results[shown[k]]) ] ]
    ELSE <<>>

\* time passes while the calls of the adapter in focus are in flight
Tick ==
    /\ focus \in Providers
    /\ handler = "awaiting"
    /\ now < MaxTime
    /\ now' = now + 1
    /\ UNCHANGED << focus, env, input, validationError, loading, results,
                    selectedBest, handler, epoch, task, promise, hist, proxy >>

\* a POST reaches one of the proxy routes
ProxyReceive(route, request) ==
    /\ focus = "proxy"
    /\ proxy.pc \in {"idle", "done"}
    /\ LET out == ProxyStart(request)
       IN  proxy' =
             [ route |-> route,
               pc |-> IF out.responded THEN "done" ELSE "fetch",
               request |-> request,
               prompt |-> out.prompt,
               calls |-> IF out.responded THEN <<>>
                         ELSE << [url |-> BackendOf(route), prompt |-> out.prompt] >>,
               backend |-> None,
               responses |-> IF out.responded THEN << out.response >> ELSE <<>> ]
    /\ UNCHANGED << focus, pageVars >>

\* the backend call of the route settles
ProxyBackendSettled(r) ==
    /\ focus = "proxy"
    /\ proxy.pc = "fetch"
    /\ proxy' = [ proxy EXCEPT
                    !.pc = "done",
                    !.backend = Some(r),
                    !.responses = Append(@, ProxyAfterFetch(proxy.route, r)) ]
    /\ UNCHANGED << focus, pageVars >>

Next ==
    \/ \E route \in ProxyRoutes : \E request \in ProxyRequests :
          ProxyReceive(route, request)
    \/ \E r \in BackendReplies : ProxyBackendSettled(r)
    \/ \E text \in TextsTyped : SetInput(text)
    \/ Submit
    \/ \E a \in Providers : \E r \in TextRepliesOf(a) : TextSettled(a, r)
    \/ \E a \in Providers : \E reply \in ImageRepliesOf(a) : ImageSettled(a, reply)
    \/ Join
    \/ \E p \in Providers : SelectBest(p)
    \/ Tick

Spec == Init /\ [][Next]_vars

\* the call adapter a is awaiting (it has one in flight at most) settles
CallSettled(a) ==
    \/ \E r \in TextRepliesOf(a) : TextSettled(a, r)
    \/ \E reply \in ImageRepliesOf(a) : ImageSettled(a, reply)

\* every network call issued settles in the end, and the event loop runs
\* the continuation of handleSubmit once Promise.all has settled
Settles ==
    /\ \A a \in Providers : WF_vars(CallSettled(a))
    /\ WF_vars(Join)

FairSpec == Spec /\ Settles

(***************************************************************************)
(* Properties.                                                             *)
(***************************************************************************)
\* the three validator signals of every text of the model, evaluated once
Signals ==
    [ text \in AllTexts |->
        [ length |-> hasDestination(text),
          travelers |-> hasPeopleCount(text),
          age |-> hasAgeInfo(text) ] ]
AllSignals(text) ==
    Signals[text].length /\ Signals[text].travelers /\ Signals[text].age

\* the text calls logged, of all adapters
TextCalls ==
    { c \in UNION { { hist[a].calls[k] : k \in 1..Len(hist[a].calls) } : a \in Providers } :
        c.url \in { TextEndpoint(a) : a \in Providers } }

\* C1: while the text in the input fails one of the three signals, no step
\* (so no submission) starts an adapter or issues a network call, and every
\* text call ever issued embeds a request text with all three signals.
C1_InvalidIssuesNoCall ==
    /\ [][ (CanSubmit /\ ~AllSignals(input)) =>
             /\ hist' = hist
             /\ task' = task
             /\ promise' = promise
             /\ loading' = loading
             /\ handler' = handler ]_vars
    /\ [](\A c \in TextCalls : AllSignals(c.userInput))

\* an invalid submission made after a complete run: the log of that run stands
C1_Witness ==
    /\ validationError = MsgAgeInfo
    /\ epoch = 1
    /\ ~loading
    /\ Len(hist["anthropic"].calls) = 1

\* the reason the claim gives for a text: the first failing signal in the
\* order length, traveler count, age
FirstFailing(text) ==
    IF ~Signals[text].length THEN MsgDestination
    ELSE IF ~Signals[text].travelers THEN MsgPeopleCount
    ELSE IF ~Signals[text].age THEN MsgAgeInfo
    ELSE NoMessage

\* C2: a submission reports the reason of the first failing signal in the
\* order length, traveler count, age, and is accepted (a run starts)
\* exactly when no signal fails.
C2_FirstFailingSignal ==
    [][ /\ (validationError' # validationError /\ validationError' # NoMessage)
            => validationError' = FirstFailing(input)
        /\ (epoch' # epoch) => FirstFailing(input) = NoMessage
        /\ (CanSubmit /\ FirstFailing(input) = NoMessage /\ input' = input
              /\ selectedBest' = selectedBest /\ epoch < SubmitsExplored)
            => epoch' = epoch + 1 ]_vars

\* a text of ten characters with both other signals is refused for its length
C2_Witness ==
    /\ input = TextLen10
    /\ Signals[input].travelers /\ Signals[input].age
    /\ validationError = MsgDestination

\* C3 as stated: "Paris" is refused with the traveler-count reason.
C3_ParisTravelerCount ==
    (input = TextParis /\ validationError # NoMessage)
        => validationError = MsgPeopleCount

\* C3 amended: "Paris" (5 characters) is refused with the destination
\* reason, the length being the first signal checked.
C3_ParisDestination ==
    (input = TextParis /\ validationError # NoMessage)
        => validationError = MsgDestination

C3_Witness == input = TextParis /\ validationError = MsgDestination

\* adapter a has seen a reply of this kind in its current run
Saw(a, kind) == \E k \in 1..Len(hist[a].seen) : hist[a].seen[k] = kind

\* the two shapes of a PipelineResult
IsSuccess(v) == v.error = None
IsFailure(v) ==
    /\ v.error \notin {None, Some("")}
    /\ v.tripBrief = EmptyBrief
    /\ v.destinationImage = ""
    /\ v.attractionImages = <<>>

\* C4: no promise of an adapter is ever rejected and handleSubmit never ends
\* by an exception; an adapter that has ended has fulfilled its promise with
\* a Success or a Failure; the published bundle is empty or holds the three
\* slots, each a Success or a Failure.
C4_NothingThrownPastAdapter ==
    /\ handler # "rejected"
    /\ \A a \in Providers :
          /\ promise[a].state # "rejected"
          /\ task[a].pc = "done" =>
                /\ promise[a].state = "fulfilled"
                /\ IsSuccess(Get(promise[a].value)) # IsFailure(Get(promise[a].value))
    /\ DOMAIN results \in {{}, Providers}
    /\ \A a \in DOMAIN results : IsSuccess(results[a]) # IsFailure(results[a])

\* a bundle with a Success, a Failure made of a rejected image fetch and a
\* Failure made of an undecodable reply
C4_Witness ==
    /\ DOMAIN results = Providers
    /\ IsSuccess(results["anthropic"])
    /\ Saw("openai", "image_reject") /\ results["openai"].error = Some(MsgFetch)
    /\ Saw("gemini", "json") /\ results["gemini"].error = Some(MsgSyntax)

\* everything adapter a owns
Local(a) == << task[a], promise[a], hist[a] >>

\* C5: an adapter that saw a non-2xx text reply ends as Failure; the three
\* adapters of a run are started together; and while a run is in flight a
\* step changes the state of at most one adapter, leaving what the other two
\* hold (their progress, their settled result) as it was.
C5_FailureIsolation ==
    /\ [](\A a \in Providers :
            /\ (task[a].pc = "done" /\ Saw(a, "http_error"))
                  => IsFailure(Get(promise[a].value))
            /\ handler = "awaiting" => (task[a].pc # "idle" /\ task[a].run = epoch))
    /\ [][ (handler = "awaiting" /\ epoch' = epoch) =>
             \A a, b \in Providers :
                 (a # b /\ Local(a)' # Local(a)) => Local(b)' = Local(b) ]_vars

\* one adapter failed on a non-2xx reply, the other two ended as Success
C5_Witness ==
    /\ DOMAIN results = Providers
    /\ Saw("openai", "http_error") /\ IsFailure(results["openai"])
    /\ IsSuccess(results["anthropic"]) /\ IsSuccess(results["gemini"])
    /\ Len(hist["gemini"].calls) > 1

\* C6: the published bundle is empty, or it holds the three slots, each the
\* value its adapter's promise was fulfilled with, all three adapters have
\* ended, and all three slots were produced by the latest submission.
C6_JoinBarrier ==
    \/ DOMAIN results = {}
    \/ /\ DOMAIN results = Providers
       /\ \A a \in Providers :
             /\ task[a].pc = "done"
             /\ promise[a] = Fulfilled(results[a])
             /\ results[a].run = epoch

\* the bundle of the second submission, with a failed adapter in it
C6_Witness ==
    /\ DOMAIN results = Providers
    /\ epoch = 2
    /\ \E a \in Providers : IsFailure(results[a])
    /\ \E a \in Providers : IsSuccess(results[a])

ImageAdapters == {"openai", "gemini"}
ImageFailures == {"image_reject", "image_nonjson", "image_error"}

\* adapter a has ended and its result is v
Ended(a) == task[a].pc = "done" /\ promise[a].state = "fulfilled"
Result(a) == Get(promise[a].value)

\* the text reply of adapter a was 2xx and a brief was decoded from it
TextDecoded(a) ==
    /\ hist[a].reply # None
    /\ Get(hist[a].reply).kind = "json"
    /\ Get(hist[a].reply).ok
    /\ Get(hist[a].reply).text # None
    /\ ExtractBrief(Get(Get(hist[a].reply).text)).ok
Decoded(a) == ExtractBrief(Get(Get(hist[a].reply).text)).value

\* the kind of the reply to the k-th image call of adapter a (the first is
\* the destination's, the next are the attractions' in order)
ImageSeen(a, k) == hist[a].seen[k + 2]
ImagesSeen(a) == Len(hist[a].seen) - 2

\* C7 as stated: for Adapter-B and Adapter-C, when the text call succeeded
\* and a complete brief was decoded, a failed image call of
\* any of the three kinds leaves the result a Success, the failed slot
\* holding the placeholder.
C7_ImageFailureKeepsSuccess ==
    \A a \in ImageAdapters :
        ( /\ Ended(a)
          /\ TextDecoded(a)
          /\ Decoded(a) \in { BriefOf(n) : n \in 0..MaxSpots }
          /\ \E kind \in ImageFailures : Saw(a, kind) )
        => /\ IsSuccess(Result(a))
           /\ \A k \in 1..ImagesSeen(a) :
                 ImageSeen(a, k) \in ImageFailures =>
                    IF k = 1
                    THEN Result(a).destinationImage = DestinationPlaceholder(a)
                    ELSE Result(a).attractionImages[k - 1] = AttractionPlaceholder

\* C8 as stated: the latencyMs of a Success is the time from the start of
\* the adapter to its return, after its last image call.
C8_LatencyCoversImages ==
    \A a \in Providers :
        (Ended(a) /\ IsSuccess(Result(a)))
            => Result(a).metrics.latencyMs = hist[a].finishedAt - task[a].startTime

\* C9 as stated: in a Success the two token fields are the 'not available'
\* literal when the reply carried no usage, and the provider's counts when
\* it did.
C9_TokensNotAvailable ==
    \A a \in Providers :
        (Ended(a) /\ IsSuccess(Result(a))) =>
            LET usage == Get(hist[a].reply).usage
                metrics == Result(a).metrics
            IN  IF usage.present
                THEN /\ metrics.inputTokens = ToString(usage.input)
                     /\ metrics.outputTokens = ToString(usage.output)
                ELSE /\ metrics.inputTokens = NotAvailable
                     /\ metrics.outputTokens = NotAvailable

\* C10: in a Success there are as many attraction images as attractions;
\* Adapter-A's image i is the LoremFlickr url of the name of attraction i;
\* for Adapter-B and Adapter-C the first three images are the answers to the
\* image calls made with the prompts of attractions 1, 2, 3 in that order
\* (the generated url, or the placeholder when the answer had none) and
\* every later image is the fallback of its own attraction and index.
C10_ImagesAligned ==
    \A a \in Providers :
        (Ended(a) /\ IsSuccess(Result(a))) =>
            LET v == Result(a)
                spots == Get(v.tripBrief.popularSpots)
            IN  /\ v.tripBrief.popularSpots # None
                /\ Len(v.attractionImages) = Len(spots)
                /\ \A i \in 1..Len(spots) :
                      IF a = "anthropic"
                      THEN v.attractionImages[i] =
                               "https://loremflickr.com/600/400/" \o spots[i].name
                      ELSE IF i <= MaxGenerated
                      THEN /\ hist[a].calls[i + 2].url = ImageEndpoint(a)
                           /\ hist[a].calls[i + 2].prompt = Some(spots[i].imagePrompt)
                           /\ v.attractionImages[i] =
                                 IF ImageSeen(a, i + 1) = "image_url"
                                 THEN GeneratedUrl(Some(spots[i].imagePrompt))
                                 ELSE AttractionPlaceholder
                      ELSE v.attractionImages[i] = FallbackImage(a, spots, i - 1)

\* a Success of Adapter-B with more than three attractions, one of the
\* first three images a placeholder and one generated
C10_Witness ==
    /\ Ended("openai") /\ IsSuccess(Result("openai"))
    /\ Len(Result("openai").attractionImages) > MaxGenerated
    /\ ImageSeen("openai", 2) = "image_error"
    /\ ImageSeen("openai", 4) = "image_url"

\* the adapters that read their key themselves
KeyedAdapters == {"openai", "gemini"}

\* adapter a was started without its key and ended at once as a Failure
\* with the credential message, having issued no network call
EndedOnMissingKey(a) ==
    /\ Ended(a)
    /\ IsFailure(Result(a))
    /\ Result(a).error = Some(KeyError(a))
    /\ Result(a).metrics.inputTokens = NotAvailable
    /\ Result(a).metrics.outputTokens = NotAvailable
    /\ hist[a].calls = <<>>
    /\ hist[a].seen = << "start" >>

\* C11 as stated: every adapter, Adapter-A included, started without its
\* credential ends as a credential Failure with no network call issued.
C11_EveryAdapterChecksKey ==
    \A a \in Providers :
        (task[a].pc # "idle" /\ ~env[a]) => EndedOnMissingKey(a)

\* C11 amended: Adapter-B and Adapter-C started without their key end as a
\* credential Failure with no network call issued, and started with their
\* key they issue the text call first; Adapter-A reads no key and issues
\* its text call in every run.
C11_KeyedAdaptersCheckKey ==
    /\ \A a \in KeyedAdapters :
          task[a].pc # "idle" =>
              IF env[a]
              THEN /\ Len(hist[a].calls) >= 1
                   /\ hist[a].calls[1].url = TextEndpoint(a)
                   /\ hist[a].seen[1] = "start"
                   /\ (Ended(a) => Result(a).error # Some(KeyError(a)))
              ELSE EndedOnMissingKey(a)
    /\ task["anthropic"].pc # "idle" =>
          /\ Len(hist["anthropic"].calls) >= 1
          /\ hist["anthropic"].calls[1].url = TextEndpoint("anthropic")

\* Adapter-B without its key next to Adapter-C with its key, in one bundle
C11_Witness ==
    /\ DOMAIN results = Providers
    /\ ~env["openai"] /\ env["gemini"]
    /\ EndedOnMissingKey("openai")
    /\ results["openai"].error = Some(KeyError("openai"))
    /\ Len(hist["gemini"].calls) >= 1

\* C12: the cards are shown exactly when a bundle is published and no run is
\* in flight; they are then three, for Anthropic, OpenAI and Gemini in that
\* order, and the card of a provider holds the result its own adapter
\* returned in the latest run, whatever the order in which the adapters ended.
C12_FixedPresentationOrder ==
    /\ (ResultCards = <<>>) = (DOMAIN results = {} \/ loading)
    /\ ResultCards # <<>> =>
          /\ Len(ResultCards) = 3
          /\ \A k \in 1..3 :
                LET card == ResultCards[k]
                IN  /\ card.provider = ProviderOrder[k]
                    /\ card.result = Result(card.provider)
                    /\ card.result.metrics.provider = ProviderName(card.provider)
                    /\ card.result.run = epoch

\* the cards of a run in which Adapter-C ended before Adapter-A, and
\* Adapter-B before both
C12_Witness ==
    /\ Len(ResultCards) = 3
    /\ hist["gemini"].finishedAt < hist["anthropic"].finishedAt
    /\ hist["openai"].finishedAt < hist["gemini"].finishedAt
    /\ Len(hist["gemini"].calls) > 1

\* the reply to the text call of adapter a was 2xx and carried a text
HasBody(a) ==
    /\ hist[a].reply # None
    /\ Get(hist[a].reply).kind = "json"
    /\ Get(hist[a].reply).ok
    /\ Get(hist[a].reply).text # None
Body(a) == Get(Get(hist[a].reply).text)

\* the spans of a body that run from a "{" with no "{" before it to a "}"
\* with no "}" after it
OuterBraceSpans(body) ==
    { sp \in { << i, j >> : i \in 1..Len(body), j \in 1..Len(body) } :
        /\ sp[1] < sp[2]
        /\ body[sp[1]] = "{" /\ body[sp[2]] = "}"
        /\ \A k \in 1..(sp[1] - 1) : body[k] # "{"
        /\ \A k \in (sp[2] + 1)..Len(body) : body[k] # "}" }

\* the extraction the claim describes: the brace span when it decodes, else
\* the entire body
ExtractWithFallback(body) ==
    IF \E sp \in OuterBraceSpans(body) : JSONparse(SubSeq(body, sp[1], sp[2])).ok
    THEN LET sp == CHOOSE sp \in OuterBraceSpans(body) : TRUE
         IN  JSONparse(SubSeq(body, sp[1], sp[2]))
    ELSE JSONparse(body)

\* the extraction without that fallback: the brace span when there is one,
\* decoded or not, and the entire body only when there is none
ExtractOuterSpan(body) ==
    IF OuterBraceSpans(body) # {}
    THEN LET sp == CHOOSE sp \in OuterBraceSpans(body) : TRUE
         IN  JSONparse(SubSeq(body, sp[1], sp[2]))
    ELSE JSONparse(body)

\* adapter a holds or returns the brief that the extraction `reference`
\* gives for the body of its text reply: a parse Failure with no further
\* call when the reference fails, and otherwise that value in its local
\* tripBrief while its image calls run and in its Success, and no parse
\* Failure other than that of an image answer
AgreesWith(a, reference) ==
    /\ ~reference.ok =>
          /\ Ended(a)
          /\ IsFailure(Result(a))
          /\ Result(a).error = Some(MsgSyntax)
          /\ Len(hist[a].calls) = 1
    /\ reference.ok =>
          /\ task[a].pc \in {"destImg", "spotImg"} =>
                task[a].tripBrief = reference.value
          /\ (Ended(a) /\ IsSuccess(Result(a))) =>
                Result(a).tripBrief = reference.value
          /\ (Ended(a) /\ Result(a).error = Some(MsgSyntax)) =>
                Saw(a, "image_nonjson")

\* C13 as stated: the decoded brief is that of the brace span when the span
\* decodes, else that of the entire body, and a parse Failure only when
\* both fail.
C13_ExtractionFallsBack ==
    \A a \in Providers :
        HasBody(a) => AgreesWith(a, ExtractWithFallback(Body(a)))

\* C13 amended: when the body has a "{" with a "}" after it, the span from
\* its first "{" to its last "}" is decoded, the prose around it ignored,
\* and a span that does not decode is a parse Failure; the entire body is
\* decoded only when the body has no such span.
C13_ExtractionOuterSpan ==
    \A a \in Providers :
        HasBody(a) => AgreesWith(a, ExtractOuterSpan(Body(a)))

\* a brief decoded out of prose, in a Success of Adapter-B
C13_Witness ==
    /\ HasBody("openai")
    /\ Body("openai") = BodyProse(BriefId(1))
    /\ Ended("openai") /\ IsSuccess(Result("openai"))
    /\ Result("openai").tripBrief = BriefOf(1)

\* the exceptions of a POST: the request or the backend's answer is no
\* JSON, the request is null, the backend cannot be reached, the backend's
\* 2xx payload has no image entry; a backend answer that is the JSON text
\* null counts as one when the route answered it with 500
ProxyException ==
    \/ proxy.request \in {"nonjson", "null"}
    \/ /\ proxy.backend # None
       /\ LET r == Get(proxy.backend)
          IN  \/ r.kind \in {"reject", "nonjson"}
              \/ r.data.null /\ proxy.responses[1].status = 500
              \/ /\ Ok(r.status)
                 /\ \/ r.data.null
                    \/ r.data.list = None
                    \/ Get(r.data.list) = <<>>

\* C14 as stated: a handled POST has sent exactly one response, which is
\* either 2xx with a url, or non-2xx with an error member: status 500 on
\* an exception, and otherwise the status of the backend's non-2xx answer.
C14_ProxyAnswersUrlOrError ==
    proxy.pc = "done" =>
        /\ Len(proxy.responses) = 1
        /\ LET response == proxy.responses[1]
           IN  IF Ok(response.status)
               THEN /\ response.body.url # None
                    /\ response.body.error = None
                    /\ ~ProxyException
               ELSE /\ response.body.error # None
                    /\ response.body.url = None
                    /\ response.status =
                          IF ProxyException THEN 500
                          ELSE Get(proxy.backend).status

\* the image calls of adapter a in its current run, in the order issued
ImageCalls(a) == SubSeq(hist[a].calls, 2, Len(hist[a].calls))

\* the calls of adapter a that have not settled yet
InFlight(a) == Len(hist[a].calls) - (Len(hist[a].seen) - 1)

\* a complete brief was decoded from the text reply of adapter a
CompleteDecoded(a) ==
    TextDecoded(a) /\ Decoded(a) \in { BriefOf(n) : n \in 0..MaxSpots }

\* the image calls of Adapter-B and Adapter-C are issued one at a time, to
\* the adapter's image route, first with the destination's prompt and then
\* with the prompts of attractions 0, 1, 2 in that order, never more than
\* four; Adapter-A issues its text call only
ImageCallsInOrder ==
    /\ \A a \in Providers :
          /\ task[a].pc # "idle" => InFlight(a) \in {0, 1}
          /\ Ended(a) => InFlight(a) = 0
          /\ \A k \in 1..Len(hist[a].calls) :
                hist[a].calls[k].url =
                    IF k = 1 THEN TextEndpoint(a) ELSE ImageEndpoint(a)
    /\ Len(hist["anthropic"].calls) <= 1
    /\ \A a \in ImageAdapters :
          /\ Len(ImageCalls(a)) <= 1 + MaxGenerated
          /\ Len(ImageCalls(a)) >= 1 =>
                /\ TextDecoded(a)
                /\ ImageCalls(a)[1].prompt = Decoded(a).destinationImagePrompt
          /\ Len(ImageCalls(a)) >= 2 =>
                /\ Decoded(a).popularSpots # None
                /\ Len(ImageCalls(a)) - 1 <= Len(Get(Decoded(a).popularSpots))
                /\ \A i \in 1..(Len(ImageCalls(a)) - 1) :
                      ImageCalls(a)[i + 1].prompt =
                          Some(Get(Decoded(a).popularSpots)[i].imagePrompt)

\* C15 as stated: the image calls are issued in that order and one at a
\* time, and a run of Adapter-B or Adapter-C that decoded a brief with n
\* attractions has issued exactly 1 + min(3, n) image calls when it ends.
C15_ImageCallProtocol ==
    /\ ImageCallsInOrder
    /\ \A a \in ImageAdapters :
          (Ended(a) /\ CompleteDecoded(a)) =>
              Len(ImageCalls(a)) =
                  1 + Min(MaxGenerated, Len(Get(Decoded(a).popularSpots)))

\* the same with the runs set aside in which the fetch of an image call
\* failed or its answer was no JSON
C15_ProtocolWithoutFailedFetch ==
    /\ ImageCallsInOrder
    /\ \A a \in ImageAdapters :
          ( /\ Ended(a) /\ CompleteDecoded(a)
            /\ ~Saw(a, "image_reject") /\ ~Saw(a, "image_nonjson") ) =>
              Len(ImageCalls(a)) =
                  1 + Min(MaxGenerated, Len(Get(Decoded(a).popularSpots)))

\* the text calls of adapter a in its current run
TextCallsOf(a) ==
    { k \in 1..Len(hist[a].calls) : hist[a].calls[k].url = TextEndpoint(a) }

\* the text call of adapter a has settled and no brief was decoded: the
\* fetch was rejected, the answer was no JSON or not 2xx, it carried no
\* text, or no JSON was decoded from its text
TextFailed(a) == hist[a].reply # None /\ ~TextDecoded(a)

\* C16: an adapter issues at most one text call in a run, as its first
\* call; once that call has failed or no brief was decoded from its reply
\* the adapter has ended as a Failure carrying the message of that error,
\* with that one call and no other.
C16_NoRetry ==
    \A a \in Providers :
        /\ Cardinality(TextCallsOf(a)) <= 1
        /\ TextCallsOf(a) \subseteq {1}
        /\ TextFailed(a) =>
              /\ Ended(a)
              /\ IsFailure(Result(a))
              /\ Len(hist[a].calls) = 1
              /\ Len(hist[a].seen) = 2
              /\ LET r == Get(hist[a].reply)
                 IN  /\ r.kind = "reject" => Result(a).error = Some(MsgFetch)
                     /\ r.kind = "nonjson" => Result(a).error = Some(MsgSyntax)
                     /\ (r.kind = "json" /\ r.ok /\ r.text = None)
                            => Result(a).error = Some(MsgTypeError)
                     /\ (r.kind = "json" /\ r.ok /\ r.text # None)
                            => Result(a).error = Some(MsgSyntax)

\* Adapter-B failed on a reply without JSON and Adapter-A on a rejected
\* fetch, each after its one call
C16_Witness ==
    /\ DOMAIN results = Providers
    /\ HasBody("openai") /\ Body("openai") = BodyNoJson
    /\ results["openai"].error = Some(MsgSyntax)
    /\ Len(hist["openai"].calls) = 1
    /\ Saw("anthropic", "reject")
    /\ Len(hist["anthropic"].calls) = 1

\* the text backend of adapter a answered non-2xx
AnsweredNon2xx(a) ==
    /\ hist[a].reply # None
    /\ Get(hist[a].reply).kind \in {"json", "nonjson"}
    /\ ~Get(hist[a].reply).ok

\* the error payload of the answer carries a message
CarriesMessage(r) == r.kind = "json" /\ r.error \notin {None, Some("")}

\* a Failure with both token fields 'N/A' and the latency measured from
\* the start of the adapter to its return
FailureMeasured(a) ==
    /\ Ended(a)
    /\ IsFailure(Result(a))
    /\ Result(a).metrics.inputTokens = NotAvailable
    /\ Result(a).metrics.outputTokens = NotAvailable
    /\ Result(a).metrics.latencyMs = hist[a].finishedAt - task[a].startTime

UnderDeliveryTolerated(a) ==
    LET n == Len(Get(Decoded(a).popularSpots))
    IN  /\ IsSuccess(Result(a))
        /\ Result(a).tripBrief = Decoded(a)
        /\ Len(Result(a).attractionImages) = n
        /\ Len(hist[a].calls) =
              IF a = "anthropic" THEN 1 ELSE 2 + Min(MaxGenerated, n)

\* C18 as stated: an adapter that decoded a brief with fewer than 10
\* attractions ends as a Success with as many images as attractions and
\* image calls for the attractions that exist only.
C18_UnderDeliveryTolerated ==
    \A a \in Providers :
        (Ended(a) /\ CompleteDecoded(a)) => UnderDeliveryTolerated(a)

\* the same with the runs set aside in which the fetch of an image call
\* failed or its answer was no JSON
C18_ToleratedWithoutFailedFetch ==
    \A a \in Providers :
        ( /\ Ended(a) /\ CompleteDecoded(a)
          /\ ~Saw(a, "image_reject") /\ ~Saw(a, "image_nonjson") )
        => UnderDeliveryTolerated(a)

\* the briefs with every member of interface TripBrief
CompleteBriefs == { BriefOf(n) : n \in 0..MaxSpots }

\* C19 as stated: an adapter that decoded an object lacking a member of
\* TripBrief ends as a Failure (whatever its message), and the brief of a
\* Success has every member.
C19_NoPartialBrief ==
    \A a \in Providers :
        /\ (Ended(a) /\ TextDecoded(a) /\ Decoded(a) \notin CompleteBriefs) =>
              IsFailure(Result(a))
        /\ (Ended(a) /\ IsSuccess(Result(a))) =>
              Result(a).tripBrief \in CompleteBriefs

\* C20: a step that sets a validation message (a submission refused by
\* validateInput) changes nothing else: the published bundle, the loading
\* flag, the selected best, the text typed, the count of submissions and
\* the adapters with their promises and logs are as before.
C20_RefusedSubmissionFrame ==
    [][ validationError' \notin {NoMessage, validationError} =>
          /\ validationError' = Validation[input]
          /\ results' = results
          /\ loading' = loading
          /\ selectedBest' = selectedBest
          /\ input' = input
          /\ epoch' = epoch
          /\ handler' = handler
          /\ task' = task
          /\ promise' = promise
          /\ hist' = hist ]_vars

\* "Paris" refused while the bundle of an earlier run is on display with a
\* best result selected
C20_Witness ==
    /\ input = TextParis
    /\ validationError = MsgDestination
    /\ DOMAIN results = Providers
    /\ selectedBest # None
    /\ ~loading

\* C21: with every issued call settling in the end, a run that has started
\* (loading is true) leads to the join: loading is false again and the
\* bundle holds the three slots.
C21_Completion ==
    loading ~> (~loading /\ handler = "idle" /\ DOMAIN results = Providers)

\* a run completed although Adapter-C ended in its catch block after the
\* answer to an image call was no JSON, and Adapter-A on a rejected fetch
C21_Witness ==
    /\ ~loading /\ handler = "idle"
    /\ DOMAIN results = Providers
    /\ Saw("gemini", "image_nonjson")
    /\ IsFailure(results["gemini"])
    /\ IsFailure(results["anthropic"])

\* adapter a is between its start and its return
Running(a) == task[a].pc \notin {"idle", "done"}

\* C22: loading is true exactly from the start of a valid submission to
\* its join; the adapters that run then are those of the latest
\* submission and none runs otherwise; a submission starts only with
\* loading false, a text that is not blank and no adapter running; and
\* while loading stays true neither a submission starts nor the bundle
\* changes.
C22_SingleOrchestration ==
    /\ [](/\ loading = (handler = "awaiting")
          /\ loading => \A a \in Providers : task[a].pc # "idle" /\ task[a].run = epoch
          /\ ~loading => \A a \in Providers : ~Running(a))
    /\ [][ epoch' # epoch =>
             /\ ~loading /\ loading'
             /\ ~IsBlank(input)
             /\ \A a \in Providers : ~Running(a)
             /\ epoch' = epoch + 1 ]_vars
    /\ [][ (loading /\ loading') =>
             /\ epoch' = epoch
             /\ results' = results
             /\ \A a \in Providers : task'[a].run = task[a].run ]_vars

\* the second run in flight, Adapter-A and Adapter-C awaiting their calls
C22_Witness ==
    /\ epoch = 2
    /\ loading
    /\ task["anthropic"].pc = "text"
    /\ task["gemini"].pc = "destImg"
    /\ DOMAIN results = {}

\* C23: the selected best is empty or names a provider whose slot of the
\* published bundle is a Success of the latest run; it is empty while a
\* run is in flight, every valid submission clears it, and only the
\* selection of a Success slot on display sets it.
C23_SelectedBestIsSuccess ==
    /\ [](/\ selectedBest # None =>
                /\ Get(selectedBest) \in DOMAIN results
                /\ IsSuccess(results[Get(selectedBest)])
                /\ ~IsFailure(results[Get(selectedBest)])
                /\ results[Get(selectedBest)].run = epoch
          /\ loading => selectedBest = None)
    /\ [][ epoch' # epoch => selectedBest' = None ]_vars
    /\ [][ (selectedBest' # selectedBest /\ selectedBest' # None) =>
             /\ ~loading
             /\ results' = results
             /\ Panel(results[Get(selectedBest')]) = "brief" ]_vars

\* Adapter-A selected as best next to a failed Adapter-B, in the bundle of
\* the second run
C23_Witness ==
    /\ selectedBest = Some("anthropic")
    /\ epoch = 2
    /\ DOMAIN results = Providers
    /\ IsFailure(results["openai"])

\* what happened to adapter a sent it to its catch block: its key was not
\* set, its text call failed or no JSON was decoded from the reply, the
\* decoded object had no attraction list to read, or the fetch of an image
\* call failed or its answer was no JSON
OnFailurePath(a) ==
    \/ hist[a].calls = <<>>
    \/ TextFailed(a)
    \/ TextDecoded(a) /\ Decoded(a).popularSpots = None
    \/ Saw(a, "image_reject")
    \/ Saw(a, "image_nonjson")

\* C24: an adapter that has ended returned a Failure (a message that is
\* not empty, an empty brief, no images) exactly when it ended in its
\* catch block, and otherwise a Success with the brief it decoded; each
\* card on display shows the error panel exactly for the former.
C24_FaithfulClassification ==
    /\ \A a \in Providers :
          Ended(a) =>
              IF OnFailurePath(a)
              THEN IsFailure(Result(a)) /\ ~IsSuccess(Result(a))
              ELSE /\ IsSuccess(Result(a)) /\ ~IsFailure(Result(a))
                   /\ Result(a).tripBrief = Decoded(a)
                   /\ Result(a).destinationImage # ""
    /\ \A k \in 1..Len(ResultCards) :
          LET card == ResultCards[k]
          IN  /\ (card.panel = "error") = OnFailurePath(card.provider)
              /\ (card.panel = "brief") = IsSuccess(card.result)
              /\ card.panel \in {"error", "brief"}

\* three cards on display: the brief of Adapter-A, the error panel of
\* Adapter-B after a non-2xx answer, the brief of Adapter-C
C24_Witness ==
    /\ Len(ResultCards) = 3
    /\ ResultCards[1].panel = "brief"
    /\ ResultCards[2].panel = "error" /\ Saw("openai", "http_error")
    /\ ResultCards[3].panel = "brief"

=============================================================================
